---- MODULE Spec2Model ----
(***************************************************************************)
(* Model of epgstation.py, the EPGStation -> Discord notification script.  *)
(*                                                                         *)
(* One invocation of the script is a run of Spec: argparse parses argv and *)
(* loads the config file, the selected notifier reads and decodes the      *)
(* environment, builds the payload, looks up the webhook URL and issues    *)
(* the HTTP POST.  Texts are sequences of one-character strings so that    *)
(* int(), str() and the f-string formats are computed, not assumed.        *)
(* Optional values are sequences of length at most one: None is <<>> and   *)
(* a present value v is <<v>>.                                             *)
(***************************************************************************)
EXTENDS Integers, Sequences, FiniteSets, TLC

VARIABLES
    argv,        \* command-line tokens after the program name
    configFile,  \* the file the --config path (default ./config.json) names
    pc,          \* position of the process
    ns,          \* argparse namespace: loaded config and selected func
    env,         \* os.environ as observed by retrieve_envvars
    envReads,    \* keys passed to os.environ.get so far, in order
    envvars,     \* decoded dict returned by retrieve_envvars
    payload,     \* value returned by the notifier function
    posts,       \* HTTP POST requests issued by urlopen
    exitcode,    \* process exit status, None while running
    err,         \* what terminated the process abnormally
    arg,         \* input of the pure-function specifications
    res          \* output of the pure-function specifications

vars == <<argv, configFile, pc, ns, env, envReads, envvars, payload, posts,
          exitcode, err, arg, res>>

-----------------------------------------------------------------------------
(* Bounds *)

MaxDeviations == 2
MaxSeconds == 7300
MaxMillis == 2500

-----------------------------------------------------------------------------
(* Optional values and texts *)

None == <<>>
Some(v) == <<v>>

NullText == <<"n", "u", "l", "l">>
NoneText == <<"N", "o", "n", "e">>
NAText == <<"N", "/", "A">>
\* the Markdown code fence (three grave accents), as one symbol
Fence == <<"[fence]">>

DigitSeq == <<"0", "1", "2", "3", "4", "5", "6", "7", "8", "9">>
DigitChars == {DigitSeq[i] : i \in 1..10}
DigitVal(c) == (CHOOSE i \in 1..10 : DigitSeq[i] = c) - 1

RECURSIVE NatToText(_)
NatToText(n) ==
    IF n < 10 THEN <<DigitSeq[n + 1]>>
    ELSE NatToText(n \div 10) \o <<DigitSeq[(n % 10) + 1]>>

\* str(n) / format(n, "d") of an int
IntToText(n) == IF n < 0 THEN <<"-">> \o NatToText(-n) ELSE NatToText(n)

\* format(n, "02d"): zero-padded to width two, never truncated
Pad2(n) ==
    LET t == IntToText(n)
    IN  IF Len(t) < 2 THEN <<"0">> \o t ELSE t

RECURSIVE GroupDigits(_)
GroupDigits(t) ==
    IF Len(t) <= 3 THEN t
    ELSE GroupDigits(SubSeq(t, 1, Len(t) - 3)) \o <<",">>
         \o SubSeq(t, Len(t) - 2, Len(t))

\* format(n, ","): thousands-grouped decimal
CommaInt(n) ==
    IF n < 0 THEN <<"-">> \o GroupDigits(NatToText(-n))
    ELSE GroupDigits(NatToText(n))

\* f-string rendering of an optional string: None renders as "None"
str(o) == IF o = None THEN NoneText ELSE o[1]

-----------------------------------------------------------------------------
(* int(): optional sign followed by one or more decimal digits; any other  *)
(* text over the alphabet of the model raises ValueError                   *)

int_body(t) == IF t # <<>> /\ t[1] \in {"+", "-"} THEN Tail(t) ELSE t

int_accepts(t) ==
    /\ int_body(t) # <<>>
    /\ \A i \in 1..Len(int_body(t)) : int_body(t)[i] \in DigitChars

RECURSIVE DigitsToNat(_)
DigitsToNat(t) ==
    IF t = <<>> THEN 0
    ELSE 10 * DigitsToNat(SubSeq(t, 1, Len(t) - 1)) + DigitVal(t[Len(t)])

int(t) ==
    IF t[1] = "-" THEN 0 - DigitsToNat(int_body(t)) ELSE DigitsToNat(int_body(t))

-----------------------------------------------------------------------------
(* Formatting helpers, lines 17-26 *)

\* variant: a missing datetime is rendered instead of raising
readable_datetime_lenient(dt) ==
    IF dt = None THEN [raised |-> FALSE, text |-> NoneText]
    ELSE [raised |-> FALSE, text |-> <<"@">> \o IntToText(dt[1])]

\* dt.strftime(...): a datetime is its epoch second; the rendering is the
\* decimal text of that second.  None has no strftime: AttributeError.
readable_datetime(dt) ==
    IF dt = None THEN [raised |-> TRUE, text |-> <<>>]
    ELSE [raised |-> FALSE, text |-> <<"@">> \o IntToText(dt[1])]

\* variant: the hour count rolls over at a day
readable_timedelta_rollover(td) ==
    IF td = None THEN [raised |-> TRUE, text |-> <<>>]
    ELSE LET seconds == td[1]
             minutes == seconds \div 60
             hours == minutes \div 60
         IN  [raised |-> FALSE,
              text |-> IntToText(hours % 24) \o <<":">> \o Pad2(minutes % 60)
                       \o <<":">> \o Pad2(seconds % 60)]

\* A timedelta is its whole number of seconds.  None has no total_seconds.
readable_timedelta(td) ==
    IF td = None THEN [raised |-> TRUE, text |-> <<>>]
    ELSE LET seconds == td[1]
             minutes == seconds \div 60
             hours == minutes \div 60
         IN  [raised |-> FALSE,
              text |-> IntToText(hours) \o <<":">> \o Pad2(minutes % 60)
                       \o <<":">> \o Pad2(seconds % 60)]

-----------------------------------------------------------------------------
(* retrieve_envvars, lines 29-69 *)

\* variant: rounds to the nearest second instead of discarding the remainder
unixtime_str_to_datetime_rounded(unixtime_str) ==
    (int(unixtime_str) + 500) \div 1000

unixtime_str_to_datetime(unixtime_str) == int(unixtime_str) \div 1000

milliseconds_str_to_timedelta(milliseconds_str) == int(milliseconds_str) \div 1000

\* the dict literal, in insertion order; "none" is castfn=None
envvars_castfn == <<
    <<"PROGRAMID", "int">>,
    <<"RECORDEDID", "int">>,
    <<"CHANNELTYPE", "none">>,
    <<"CHANNELID", "none">>,
    <<"CHANNELNAME", "none">>,
    <<"STARTAT", "unixtime_str_to_datetime">>,
    <<"ENDAT", "unixtime_str_to_datetime">>,
    <<"DURATION", "milliseconds_str_to_timedelta">>,
    <<"NAME", "none">>,
    <<"DESCRIPTION", "none">>,
    <<"EXTENDED", "none">>,
    <<"RECPATH", "none">>,
    <<"LOGPATH", "none">>,
    <<"ERROR_CNT", "int">>,
    <<"DROP_CNT", "int">>,
    <<"SCRAMBLING_CNT", "int">> >>

EnvKeyOrder == [i \in 1..Len(envvars_castfn) |-> envvars_castfn[i][1]]
EnvKeys == {EnvKeyOrder[i] : i \in 1..Len(EnvKeyOrder)}
NumericKeys == {envvars_castfn[i][1] : i \in {j \in 1..Len(envvars_castfn) :
                                               envvars_castfn[j][2] # "none"}}
StringKeys == EnvKeys \ NumericKeys

\* castfn(raw), given that int(raw) does not raise
apply_castfn(castfn, raw) ==
    CASE castfn = "int" -> int(raw)
      [] castfn = "unixtime_str_to_datetime" -> unixtime_str_to_datetime(raw)
      [] castfn = "milliseconds_str_to_timedelta" ->
             milliseconds_str_to_timedelta(raw)

\* variant: a cast that raises yields None instead of aborting
get_envvar_swallow(e, key, castfn) ==
    LET raw == IF key \in DOMAIN e THEN Some(e[key]) ELSE None
    IN  IF raw = None \/ raw = Some(NullText)
        THEN [raised |-> FALSE, value |-> None]
        ELSE IF castfn # "none"
        THEN IF int_accepts(raw[1])
             THEN [raised |-> FALSE, value |-> Some(apply_castfn(castfn, raw[1]))]
             ELSE [raised |-> FALSE, value |-> None]
        ELSE [raised |-> FALSE, value |-> raw]

\* variant: an unset or "null" integer variable decodes to zero
get_envvar_zero(e, key, castfn) ==
    LET raw == IF key \in DOMAIN e THEN Some(e[key]) ELSE None
    IN  IF raw = None \/ raw = Some(NullText)
        THEN [raised |-> FALSE,
              value |-> IF castfn = "int" THEN Some(0) ELSE None]
        ELSE IF castfn # "none"
        THEN IF int_accepts(raw[1])
             THEN [raised |-> FALSE, value |-> Some(apply_castfn(castfn, raw[1]))]
             ELSE [raised |-> TRUE, value |-> None]
        ELSE [raised |-> FALSE, value |-> raw]

get_envvar(e, key, castfn) ==
    LET raw == IF key \in DOMAIN e THEN Some(e[key]) ELSE None
    IN  IF raw = None \/ raw = Some(NullText)
        THEN [raised |-> FALSE, value |-> None]
        ELSE IF castfn # "none"
        THEN IF int_accepts(raw[1])
             THEN [raised |-> FALSE, value |-> Some(apply_castfn(castfn, raw[1]))]
             ELSE [raised |-> TRUE, value |-> None]
        ELSE [raised |-> FALSE, value |-> raw]

\* the dict comprehension: keys are read in order, the first cast that
\* raises ends the comprehension
retrieve_envvars(e) ==
    LET n == Len(envvars_castfn)
        r(i) == get_envvar(e, envvars_castfn[i][1], envvars_castfn[i][2])
        bad == {i \in 1..n : r(i).raised}
        stop == IF bad = {} THEN n
                ELSE CHOOSE i \in bad : \A j \in bad : i <= j
    IN  [raised |-> bad # {},
         reads |-> SubSeq(EnvKeyOrder, 1, stop),
         value |-> IF bad # {} THEN [k \in {} |-> None]
                   ELSE [k \in EnvKeys |->
                           r(CHOOSE i \in 1..n : envvars_castfn[i][1] = k).value]]

-----------------------------------------------------------------------------
(* try_comma_int and build_payload, lines 86-141 *)

try_comma_int(number, fallback) ==
    IF number = None THEN fallback ELSE CommaInt(number[1])

build_payload(message, color, ev, artifacts) ==
    LET startAt == readable_datetime(ev["STARTAT"])
        endAt == readable_datetime(ev["ENDAT"])
        duration == readable_timedelta(ev["DURATION"])
        channelName == IF ev["CHANNELNAME"] = None \/ ev["CHANNELNAME"] = Some(<<>>)
                       THEN <<>> ELSE ev["CHANNELNAME"][1]
        base == <<
            [name |-> "channel",
             value |-> str(ev["CHANNELTYPE"]) \o <<":", " ">>
                       \o str(ev["CHANNELID"]) \o <<" ">> \o channelName],
            [name |-> "broadcast",
             value |-> startAt.text \o <<" ", "~", " ">> \o endAt.text
                       \o <<"\n", "[Duration] ">> \o duration.text] >>
        extra == <<
            [name |-> "recfile",
             value |-> Fence \o str(ev["RECPATH"]) \o Fence],
            [name |-> "logfile",
             value |-> IF ev["LOGPATH"] # None /\ ev["LOGPATH"] # Some(<<>>)
                       THEN Fence \o ev["LOGPATH"][1] \o Fence
                       ELSE NoneText],
            [name |-> "counters",
             value |-> <<"[Error] ">> \o try_comma_int(ev["ERROR_CNT"], NAText)
                       \o <<"[Drop] ">> \o try_comma_int(ev["DROP_CNT"], NAText)
                       \o <<"[Scramble] ">>
                       \o try_comma_int(ev["SCRAMBLING_CNT"], NAText)] >>
        embed == [title |-> message \o <<":", " ">> \o str(ev["NAME"]),
                  description |-> ev["DESCRIPTION"],
                  fields |-> IF artifacts THEN base \o extra ELSE base,
                  color |-> color]
    IN  IF startAt.raised \/ endAt.raised \/ duration.raised
        THEN [raised |-> TRUE, value |-> None]
        ELSE [raised |-> FALSE, value |-> Some([embeds |-> <<embed>>])]

-----------------------------------------------------------------------------
(* The decorated notifier functions, lines 144-198.  A function is the     *)
(* record of its __name__ and of the arguments it passes to build_payload; *)
(* the message is one symbol standing for the literal label.               *)

reserve_new_addition ==
    [name |-> "reserve_new_addition", message |-> <<":bell: reserve added">>,
     color |-> None, artifacts |-> FALSE]

reserve_update ==
    [name |-> "reserve_update", message |-> <<":bell: reserve updated">>,
     color |-> None, artifacts |-> FALSE]

reserve_deleted ==
    [name |-> "reserve_deleted", message |-> <<":no_bell: reserve deleted">>,
     color |-> None, artifacts |-> FALSE]

recording_pre_start ==
    [name |-> "recording_pre_start", message |-> <<":movie_camera: pre start">>,
     color |-> Some(16777164), artifacts |-> FALSE]

recording_prep_rec_failed ==
    [name |-> "recording_prep_rec_failed", message |-> <<":no_entry: prep failed">>,
     color |-> Some(16711680), artifacts |-> FALSE]

\* variant: the start notification carries the artifact fields
recording_start_artifacts ==
    [name |-> "recording_start", message |-> <<":record_button: start">>,
     color |-> Some(16777164), artifacts |-> TRUE]

recording_start ==
    [name |-> "recording_start", message |-> <<":record_button: start">>,
     color |-> Some(16777164), artifacts |-> FALSE]

recording_finish ==
    [name |-> "recording_finish", message |-> <<":stop_button: finish">>,
     color |-> Some(65280), artifacts |-> TRUE]

recording_failed ==
    [name |-> "recording_failed", message |-> <<":no_entry: failed">>,
     color |-> Some(16711680), artifacts |-> TRUE]

\* variant: every wrapper calls the function decorated last
notifier_misbound(fn) == <<fn.name, recording_failed>>

\* notifier(fn) registers the pair (fn.__name__, wrapper); a wrapper is
\* identified by the function it closes over
notifier(fn) == <<fn.name, fn>>

notifiers == <<
    notifier(reserve_new_addition),
    notifier(reserve_update),
    notifier(reserve_deleted),
    notifier(recording_pre_start),
    notifier(recording_prep_rec_failed),
    notifier(recording_start),
    notifier(recording_finish),
    notifier(recording_failed) >>

-----------------------------------------------------------------------------
(* load_json_file and the argument parser, lines 201-226 *)

\* a JSON object is a function from its keys to texts
JsonObject(keys) == [k \in keys |-> <<"h", "t", "t", "p">>]

\* an unreadable or unparsable file, an object without the key, one with it
ConfigFiles == {
    [valid |-> FALSE, obj |-> JsonObject({})],
    [valid |-> TRUE, obj |-> JsonObject({"comment"})],
    [valid |-> TRUE, obj |-> JsonObject({"webhook_url", "comment"})] }

load_json_file(file) ==
    IF file.valid THEN [raised |-> FALSE, value |-> Some(file.obj)]
    ELSE [raised |-> TRUE, value |-> None]

\* the sub-parser registered under a name, if any
subparser(name) ==
    IF \E i \in 1..Len(notifiers) : notifiers[i][1] = name
    THEN Some(notifiers[CHOOSE i \in 1..Len(notifiers) : notifiers[i][1] = name][2])
    ELSE None

UsageError == [exit |-> Some(2), err |-> "usage", config |-> None, func |-> None]

\* variant: an unknown or missing subcommand falls back to the first notifier
parse_args_fallback(av, file) ==
    IF av # <<>> /\ av[1] = "--version"
    THEN [exit |-> Some(0), err |-> "", config |-> None, func |-> None]
    ELSE IF load_json_file(file).raised THEN UsageError
    ELSE IF Len(av) > 1 THEN UsageError
    ELSE [exit |-> None, err |-> "", config |-> load_json_file(file).value,
          func |-> IF av = <<>> \/ subparser(av[1]) = None
                   THEN Some(notifiers[1][2]) ELSE subparser(av[1])]

\* parser.parse_args(): the version action exits as soon as it is consumed;
\* an unknown choice is rejected when the positional is consumed; the config
\* default is converted by load_json_file before the required-argument and
\* unrecognized-argument checks
parse_args(av, file) ==
    IF av # <<>> /\ av[1] = "--version"
    THEN [exit |-> Some(0), err |-> "", config |-> None, func |-> None]
    ELSE IF av # <<>> /\ subparser(av[1]) = None THEN UsageError
    ELSE IF load_json_file(file).raised THEN UsageError
    ELSE IF av = <<>> THEN UsageError
    ELSE IF Len(av) > 1 THEN UsageError
    ELSE [exit |-> None, err |-> "", config |-> load_json_file(file).value,
          func |-> subparser(av[1])]

-----------------------------------------------------------------------------
(* Inputs *)

FunctionNames == {notifiers[i][1] : i \in 1..Len(notifiers)}

HyphenNames == {"reserve-new-addition", "reserve-update", "reserve-deleted",
                "recording-pre-start", "recording-prep-rec-failed",
                "recording-start", "recording-finish", "recording-failed"}

CmdTokens == FunctionNames \cup HyphenNames \cup {"bogus"}

ArgvSet ==
    {<<>>, <<"--version">>}
    \cup {<<c>> : c \in CmdTokens}
    \cup {<<"--version", c>> : c \in CmdTokens}
    \cup {<<c, "--version">> : c \in CmdTokens}

Baseline == [
    PROGRAMID |-> <<"1", "2">>,
    RECORDEDID |-> <<"7">>,
    CHANNELTYPE |-> <<"G", "R">>,
    CHANNELID |-> <<"1">>,
    CHANNELNAME |-> <<"N", "H", "K">>,
    STARTAT |-> <<"5", "1", "2", "3">>,
    ENDAT |-> <<"3", "7", "3", "0", "9", "9", "9">>,
    DURATION |-> <<"3", "7", "2", "5", "0", "0", "0">>,
    NAME |-> <<"F", "o", "o">>,
    DESCRIPTION |-> <<"d">>,
    EXTENDED |-> <<"e">>,
    RECPATH |-> <<"/", "r">>,
    LOGPATH |-> <<"/", "l">>,
    ERROR_CNT |-> <<"0">>,
    DROP_CNT |-> <<"1", "2", "3", "4", "5", "6", "7">>,
    SCRAMBLING_CNT |-> <<"1", "2">> ]

\* what a variable may be instead of its baseline: unset, "null", or another text
\* (the empty text only for the variables whose emptiness the code tests or casts)
EmptyTextKeys == {"CHANNELNAME", "LOGPATH", "ERROR_CNT"}

Alternatives(k) ==
    (IF k \in NumericKeys
     THEN {None, Some(NullText), Some(<<"a", "b", "c">>), Some(<<"0">>)}
     ELSE {None, Some(NullText)})
    \cup (IF k \in EmptyTextKeys THEN {Some(<<>>)} ELSE {})

AllAlternatives == UNION {Alternatives(k) : k \in EnvKeys}

DeviationSets == {D \in SUBSET EnvKeys : Cardinality(D) <= MaxDeviations}

EnvFrom(D, f) ==
    [k \in {x \in EnvKeys : ~(x \in D /\ f[x] = None)} |->
        IF k \in D THEN f[k][1] ELSE Baseline[k]]

Environments ==
    UNION {{EnvFrom(D, f) : f \in {g \in [D -> AllAlternatives] :
                                     \A k \in D : g[k] \in Alternatives(k)}} :
           D \in DeviationSets}

HttpOutcomes == {"ok", "HTTPError", "URLError"}

NoEnv == [k \in {} |-> <<>>]
NoDict == [k \in {} |-> None]

-----------------------------------------------------------------------------
(* The process *)

Init ==
    /\ argv \in ArgvSet
    /\ configFile \in ConfigFiles
    /\ pc = "parse"
    /\ ns = [config |-> None, func |-> None]
    /\ env = NoEnv
    /\ envReads = <<>>
    /\ envvars = NoDict
    /\ payload = None
    /\ posts = <<>>
    /\ exitcode = None
    /\ err = ""
    /\ arg = <<>>
    /\ res = None

\* variant: the parser refuses a config object without webhook_url
ParseArgs_RequiresUrl ==
    /\ pc = "parse"
    /\ LET r == parse_args(argv, configFile)
           missing == r.config # None /\ "webhook_url" \notin DOMAIN r.config[1]
       IN  /\ ns' = [config |-> r.config, func |-> r.func]
           /\ exitcode' = IF missing THEN Some(1) ELSE r.exit
           /\ err' = IF missing THEN "KeyError" ELSE r.err
           /\ pc' = IF r.exit = None /\ ~missing THEN "call" ELSE "exited"
    /\ UNCHANGED <<argv, configFile, env, envReads, envvars, payload, posts,
                   arg, res>>

\* lines 212-226: build the parser and parse the command line
ParseArgs ==
    /\ pc = "parse"
    /\ LET r == parse_args(argv, configFile)
       IN  /\ ns' = [config |-> r.config, func |-> r.func]
           /\ exitcode' = r.exit
           /\ err' = r.err
           /\ pc' = IF r.exit = None THEN "call" ELSE "exited"
    /\ UNCHANGED <<argv, configFile, env, envReads, envvars, payload, posts,
                   arg, res>>

\* line 227, 150, 93-94: args.func(args) enters the wrapper, the wrapper
\* calls fn, fn calls build_payload, which first calls retrieve_envvars
RetrieveEnvvars ==
    /\ pc = "call"
    /\ \E e \in Environments :
         LET r == retrieve_envvars(e)
         IN  /\ env' = e
             /\ envReads' = r.reads
             /\ envvars' = r.value
             /\ IF r.raised
                THEN /\ pc' = "exited"
                     /\ exitcode' = Some(1)
                     /\ err' = "ValueError"
                ELSE /\ pc' = "build"
                     /\ UNCHANGED <<exitcode, err>>
    /\ UNCHANGED <<argv, configFile, ns, payload, posts, arg, res>>

\* lines 96-141: the rest of build_payload, with the arguments of the
\* selected notifier function
BuildPayload ==
    /\ pc = "build"
    /\ LET fn == ns.func[1]
           r == build_payload(fn.message, fn.color, envvars, fn.artifacts)
       IN  /\ payload' = r.value
           /\ IF r.raised
              THEN /\ pc' = "exited"
                   /\ exitcode' = Some(1)
                   /\ err' = "AttributeError"
              ELSE /\ pc' = "wrapper"
                   /\ UNCHANGED <<exitcode, err>>
    /\ UNCHANGED <<argv, configFile, ns, env, envReads, envvars, posts, arg, res>>

\* lines 151-154: the wrapper returns on an empty payload, else looks up
\* the webhook URL in the config
Wrapper ==
    /\ pc = "wrapper"
    /\ IF payload = None
       THEN /\ pc' = "exited"
            /\ exitcode' = Some(0)
            /\ UNCHANGED err
       ELSE IF "webhook_url" \notin DOMAIN ns.config[1]
       THEN /\ pc' = "exited"
            /\ exitcode' = Some(1)
            /\ err' = "KeyError"
       ELSE /\ pc' = "send"
            /\ UNCHANGED <<exitcode, err>>
    /\ UNCHANGED <<argv, configFile, ns, env, envReads, envvars, payload, posts,
                   arg, res>>

\* variant: a failed request is sent a second time
SendDiscordWebhook_Retry ==
    /\ pc = "send"
    /\ \E outcome \in HttpOutcomes :
         LET request == [url |-> ns.config[1]["webhook_url"],
                         method |-> "POST",
                         body |-> payload[1]]
         IN  /\ posts' = IF outcome = "ok" THEN Append(posts, request)
                         ELSE posts \o <<request, request>>
             /\ pc' = "exited"
             /\ exitcode' = IF outcome = "ok" THEN Some(0) ELSE Some(1)
             /\ err' = IF outcome = "ok" THEN "" ELSE outcome
    /\ UNCHANGED <<argv, configFile, ns, env, envReads, envvars, payload,
                   arg, res>>

\* lines 72-83, 155: one urlopen of one POST request; an error response or a
\* network error raises out of the wrapper and ends the process
SendDiscordWebhook ==
    /\ pc = "send"
    /\ \E outcome \in HttpOutcomes :
         /\ posts' = Append(posts, [url |-> ns.config[1]["webhook_url"],
                                    method |-> "POST",
                                    body |-> payload[1]])
         /\ pc' = "exited"
         /\ exitcode' = IF outcome = "ok" THEN Some(0) ELSE Some(1)
         /\ err' = IF outcome = "ok" THEN "" ELSE outcome
    /\ UNCHANGED <<argv, configFile, ns, env, envReads, envvars, payload,
                   arg, res>>

Next ==
    \/ ParseArgs
    \/ RetrieveEnvvars
    \/ BuildPayload
    \/ Wrapper
    \/ SendDiscordWebhook

Spec == Init /\ [][Next]_vars

-----------------------------------------------------------------------------
(* DURATION decoding and rendering as a function of the span:              *)
(* readable_timedelta(milliseconds_str_to_timedelta(text))                 *)

SampleSpans == {90000, 360000}
MilliRemainders == {0, 1, 999}

IdleFile == [valid |-> FALSE, obj |-> JsonObject({})]

InitTimedelta ==
    /\ arg \in {[secs |-> s, text |-> IntToText(s * 1000 + r)] :
                   s \in (0..MaxSeconds) \cup SampleSpans, r \in MilliRemainders}
    /\ res = None
    /\ pc = "timedelta"
    /\ argv = <<>>
    /\ configFile = IdleFile
    /\ ns = [config |-> None, func |-> None]
    /\ env = NoEnv
    /\ envReads = <<>>
    /\ envvars = NoDict
    /\ payload = None
    /\ posts = <<>>
    /\ exitcode = None
    /\ err = ""

ApplyTimedelta ==
    /\ pc = "timedelta"
    /\ res' = Some(readable_timedelta(
                       Some(milliseconds_str_to_timedelta(arg.text))).text)
    /\ pc' = "done"
    /\ UNCHANGED <<argv, configFile, ns, env, envReads, envvars, payload, posts,
                   exitcode, err, arg>>

NextTimedelta == ApplyTimedelta

SpecTimedelta == InitTimedelta /\ [][NextTimedelta]_vars

-----------------------------------------------------------------------------
(* STARTAT / ENDAT decoding as a function of the millisecond value:        *)
(* unixtime_str_to_datetime(text) for two values v and w                   *)

Neighbours(v) == {v, v - (v % 1000), v - (v % 1000) + 999, v + 1, v - 1}

InitUnixtime ==
    /\ arg \in {[v |-> v, w |-> w, vtext |-> IntToText(v), wtext |-> IntToText(w)] :
                   v \in (0 - MaxMillis)..MaxMillis, w \in {0, 2000} }
       \cup UNION {{[v |-> v, w |-> w, vtext |-> IntToText(v), wtext |-> IntToText(w)] :
                       w \in Neighbours(v)} : v \in (0 - MaxMillis)..MaxMillis}
    /\ res = None
    /\ pc = "unixtime"
    /\ argv = <<>>
    /\ configFile = IdleFile
    /\ ns = [config |-> None, func |-> None]
    /\ env = NoEnv
    /\ envReads = <<>>
    /\ envvars = NoDict
    /\ payload = None
    /\ posts = <<>>
    /\ exitcode = None
    /\ err = ""

ApplyUnixtime ==
    /\ pc = "unixtime"
    /\ res' = Some(<<unixtime_str_to_datetime(arg.vtext),
                     unixtime_str_to_datetime(arg.wtext)>>)
    /\ pc' = "done"
    /\ UNCHANGED <<argv, configFile, ns, env, envReads, envvars, payload, posts,
                   exitcode, err, arg>>

NextUnixtime == ApplyUnixtime

SpecUnixtime == InitUnixtime /\ [][NextUnixtime]_vars

-----------------------------------------------------------------------------
(* Properties *)

\* the event-kind names the command line accepts, and what each one's
\* payload must carry
KindNames == {"reserve_new_addition", "reserve_update", "reserve_deleted",
              "recording_pre_start", "recording_prep_rec_failed",
              "recording_start", "recording_finish", "recording_failed"}

ArtifactKinds == {"recording_finish", "recording_failed"}

KindColor(kind) ==
    CASE kind \in {"reserve_new_addition", "reserve_update", "reserve_deleted"} -> None
      [] kind \in {"recording_pre_start", "recording_start"} -> Some(16777164)
      [] kind \in {"recording_prep_rec_failed", "recording_failed"} -> Some(16711680)
      [] kind = "recording_finish" -> Some(65280)

KindLabel(kind) ==
    CASE kind = "reserve_new_addition" -> ":bell: reserve added"
      [] kind = "reserve_update" -> ":bell: reserve updated"
      [] kind = "reserve_deleted" -> ":no_bell: reserve deleted"
      [] kind = "recording_pre_start" -> ":movie_camera: pre start"
      [] kind = "recording_prep_rec_failed" -> ":no_entry: prep failed"
      [] kind = "recording_start" -> ":record_button: start"
      [] kind = "recording_finish" -> ":stop_button: finish"
      [] kind = "recording_failed" -> ":no_entry: failed"

Embed == payload[1].embeds[1]
FieldNames == [i \in 1..Len(Embed.fields) |-> Embed.fields[i].name]
FieldValue(name) ==
    Embed.fields[CHOOSE i \in 1..Len(Embed.fields) : Embed.fields[i].name = name].value

EnvObserved == envReads # <<>>
AbsentOrNull(k) == k \notin DOMAIN env \/ env[k] = NullText
HasRaw(k, t) == k \in DOMAIN env /\ env[k] = t

ConfigLacksUrl == ns.config # None /\ "webhook_url" \notin DOMAIN ns.config[1]

\* C1 as stated: with a loaded config that has no webhook_url key, no
\* environment variable is ever read and the run does not succeed.
C1_FailsBeforeEnvRead ==
    ConfigLacksUrl =>
        /\ envReads = <<>>
        /\ pc = "exited" => exitcode # Some(0)

\* C1 amended: with a loaded config that has no webhook_url key the run
\* exits non-zero and issues no POST, but the missing key is only detected
\* (KeyError) after all environment variables were read and the payload built.
C1_FailsAfterEnvRead ==
    ConfigLacksUrl =>
        /\ posts = <<>>
        /\ pc = "exited" => exitcode = Some(1)
        /\ err = "KeyError" => /\ envReads = EnvKeyOrder
                               /\ payload # None

C1_Witness == ConfigLacksUrl /\ err = "KeyError" /\ pc = "exited"

C3_AtMostOnePost ==
    /\ Len(posts) <= 1
    /\ posts # <<>> => /\ pc = "exited"
                       /\ err # "" => exitcode = Some(1)

C3_Witness == Len(posts) = 1 /\ err = "HTTPError" /\ pc = "exited"

C4Keys == {"PROGRAMID", "RECORDEDID", "STARTAT", "ENDAT", "DURATION",
           "ERROR_CNT", "DROP_CNT", "SCRAMBLING_CNT"}

DecimalText(t) ==
    /\ t # <<>>
    /\ \A i \in 1..Len(t) :
          \/ t[i] \in DigitChars
          \/ i = 1 /\ Len(t) > 1 /\ t[i] \in {"+", "-"}

Malformed(k) == k \in DOMAIN env /\ env[k] # NullText /\ ~DecimalText(env[k])

\* C4: if a numeric variable is set, is not "null" and is not decimal
\* integer text, the run has aborted with ValueError: no payload was built
\* and no POST issued, whatever the event kind and the other variables.
C4_MalformedNumberAborts ==
    (\E k \in C4Keys : Malformed(k)) =>
        /\ pc = "exited"
        /\ exitcode = Some(1)
        /\ err = "ValueError"
        /\ payload = None
        /\ posts = <<>>

C4_Witness ==
    /\ argv = <<"reserve_deleted">>
    /\ Malformed("SCRAMBLING_CNT")
    /\ AbsentOrNull("NAME")
    /\ pc = "exited"

IsPositional(token) == token # "--version"
Positionals == SelectSeq(argv, IsPositional)
NoOrUnknownSubcommand ==
    Positionals = <<>> \/ Positionals[1] \notin KindNames

C6_ArtifactFields ==
    payload # None =>
        FieldNames = IF argv[1] \in ArtifactKinds
                     THEN <<"channel", "broadcast", "recfile", "logfile", "counters">>
                     ELSE <<"channel", "broadcast">>

C6_Witness ==
    /\ payload # None
    /\ argv[1] = "recording_failed"
    /\ Len(Embed.fields) = 5

IntKeys == {"PROGRAMID", "RECORDEDID", "ERROR_CNT", "DROP_CNT", "SCRAMBLING_CNT"}

CounterText(k) ==
    IF AbsentOrNull(k) THEN NAText
    ELSE IF env[k] = <<"0">> THEN <<"0">>
    ELSE CommaInt(int(env[k]))

\* C7: an integer variable that is unset or "null" decodes to None and not
\* to zero, the text "0" decodes to zero, and the counters field renders
\* the former as N/A and the latter as 0.
C7_NullIsNotZero ==
    /\ DOMAIN envvars # {} =>
          \A k \in IntKeys :
              /\ AbsentOrNull(k) => (envvars[k] = None /\ envvars[k] # Some(0))
              /\ HasRaw(k, <<"0">>) => envvars[k] = Some(0)
    /\ (payload # None /\ argv[1] \in ArtifactKinds) =>
          FieldValue("counters") =
              <<"[Error] ">> \o CounterText("ERROR_CNT")
              \o <<"[Drop] ">> \o CounterText("DROP_CNT")
              \o <<"[Scramble] ">> \o CounterText("SCRAMBLING_CNT")

C7_Witness ==
    /\ payload # None
    /\ argv[1] = "recording_finish"
    /\ HasRaw("ERROR_CNT", <<"0">>)
    /\ AbsentOrNull("DROP_CNT")
    /\ HasRaw("SCRAMBLING_CNT", NullText)

Colons(t) == {i \in 1..Len(t) : t[i] = ":"}
AllDigits(t) == t # <<>> /\ \A i \in 1..Len(t) : t[i] \in DigitChars

\* C8: a span of s >= 0 whole seconds renders as H:MM:SS with H = s div 3600
\* in plain decimal (no rollover at 24), MM and SS two digits each, and
\* H*3600 + MM*60 + SS = s; 3725 renders 1:02:05 and 90000 renders 25:00:00.
C8_DurationRendering ==
    res # None =>
        LET t == res[1]
            s == arg.secs
            c1 == CHOOSE i \in Colons(t) : \A j \in Colons(t) : i <= j
            c2 == CHOOSE i \in Colons(t) : \A j \in Colons(t) : j <= i
            hh == SubSeq(t, 1, c1 - 1)
            mm == SubSeq(t, c1 + 1, c2 - 1)
            ss == SubSeq(t, c2 + 1, Len(t))
        IN  /\ Cardinality(Colons(t)) = 2
            /\ AllDigits(hh) /\ AllDigits(mm) /\ AllDigits(ss)
            /\ Len(hh) = 1 \/ hh[1] # "0"
            /\ Len(mm) = 2 /\ Len(ss) = 2
            /\ DigitsToNat(hh) = s \div 3600
            /\ DigitsToNat(mm) = (s \div 60) % 60
            /\ DigitsToNat(ss) = s % 60
            /\ DigitsToNat(hh) * 3600 + DigitsToNat(mm) * 60 + DigitsToNat(ss) = s
            /\ s = 3725 => t = <<"1", ":", "0", "2", ":", "0", "5">>
            /\ s = 90000 => t = <<"2", "5", ":", "0", "0", ":", "0", "0">>

C8_Witness ==
    /\ res # None
    /\ arg.secs = 90000
    /\ res[1][1] = "2"

\* C9: a millisecond value v decodes to the second d with
\* 1000*d <= v < 1000*d + 1000, so two values within the same second decode
\* to the same timestamp.
C9_MillisecondsDiscarded ==
    res # None =>
        LET dv == res[1][1]
            dw == res[1][2]
        IN  /\ 1000 * dv <= arg.v /\ arg.v < 1000 * dv + 1000
            /\ 1000 * dw <= arg.w /\ arg.w < 1000 * dw + 1000
            /\ dv = arg.v \div 1000
            /\ (arg.v \div 1000 = arg.w \div 1000) => dv = dw

C9_Witness ==
    /\ res # None
    /\ arg.v = 2123
    /\ arg.w = 2000
    /\ res[1] = <<2, 2>>

TimeKeys == {"STARTAT", "ENDAT", "DURATION"}

\* C10: a payload is built and a POST issued only when STARTAT, ENDAT and
\* DURATION all decode to present values; when one of them is unset or
\* "null" the run aborts without a payload and without a POST.
C10_TimesRequired ==
    /\ (payload # None \/ posts # <<>>) =>
          \A k \in TimeKeys : ~AbsentOrNull(k) /\ envvars[k] # None
    /\ (EnvObserved /\ \E k \in TimeKeys : AbsentOrNull(k)) =>
          /\ payload = None
          /\ posts = <<>>
          /\ pc \in {"build", "exited"}
          /\ pc = "exited" => /\ exitcode = Some(1)
                              /\ err \in {"ValueError", "AttributeError"}

C10_Witness ==
    /\ err = "AttributeError"
    /\ AbsentOrNull("ENDAT")
    /\ ~AbsentOrNull("STARTAT")
    /\ argv = <<"reserve_update">>

====
